---- MODULE Spec2Model ----
(***************************************************************************)
(* Model of the integration layer of the market dashboard                  *)
(* (server/integrations.ts, here src/unnamed/part_000): the lazily created *)
(* module-level handles of the three backends (redis, mysql, zmq), the     *)
(* pooled query helper, the health checks and the ZMQ consume loop.        *)
(*                                                                         *)
(* Execution model: a JavaScript async function runs without interruption  *)
(* up to its next `await`; every `await` of a library promise is a point   *)
(* where other calls may run.  One action of the model is one such         *)
(* uninterrupted stretch of code.  Library calls (redis connect/ping,      *)
(* mysql createPool/getConnection/execute/ping, zmq connect/receive) are   *)
(* outside the repository: each is modelled by the outcomes its promise    *)
(* can have (resolve, reject, stay pending).                               *)
(***************************************************************************)
EXTENDS Integers, Sequences, FiniteSets, TLC

\* ------------------------------------------------------------------ bounds
NCallers == 2        \* concurrent callers of the get* functions
MaxAttempts == 2     \* connect attempts modelled per backend
NTasks == 2          \* concurrent callers of queryMySQL / checkMySQLHealth
MaxMsgs == 3         \* messages the bus delivers to the subscriber socket

\* --------------------------------------------------------------- constants
NULL == 0            \* `null`: the initial value of the module-level handles
ConnectionLimit == 10  \* createPool({ connectionLimit: 10, waitForConnections: true, queueLimit: 0 })

Backends == {"redis", "mysql", "zmq"}
Callers == 1..NCallers
Tasks == 1..NTasks
Statuses == {"up", "down", "hung"}
ConnStates == {"none", "connecting", "ready", "failed"}

VARIABLES
  redisClient,   \* let redisClient: RedisClientType | null   (0 = null, n = n-th client built)
  mysqlPool,     \* let mysqlPool: mysql.Pool | null
  zmqSocket,     \* let zmqSocket: zmq.Subscriber | null
  conn,          \* per backend: state of the connect procedure of the last handle built
  built,         \* per backend: number of handle objects constructed so far
  attempts,      \* per backend: number of connect procedures started so far
  acq,           \* per caller: the get* call it is in (pc, backend, result, observations)
  checkedOut,    \* connections of mysqlPool that are checked out (or being opened for a caller)
  waitq,         \* the pool's queue of callers waiting in getConnection(), oldest first
  q,             \* per task: the queryMySQL / checkMySQLHealth call it is in
  health,        \* the getSystemHealth call: its position and the report it is assembling
  status,        \* environment: per backend "up", "down" (refuses) or "hung" (never answers)
  cons,          \* the subscribeToZMQTopic call: its position and its topic
  cons2,         \* a further subscribeToZMQTopic call made while the first one's loop runs
  subs,          \* topics the subscriber socket is subscribed to
  inbox,         \* first frames of the messages waiting in the subscriber socket
  received,      \* first frames the receive loop has taken from the socket, in order
  calls,         \* the invocations of the callback, in order
  store,         \* the redis server: per key the stored text and its expiry
  now,           \* the time, in seconds
  cache,         \* the getRedisData / setRedisData call: its position, arguments and result
  written,       \* per key: the last write that completed (value, ttl, time)
  inflight,      \* the received messages whose callback invocation has not returned yet
  rec            \* the record mutation of the routers: its position and what it did

brokerVars == <<redisClient, mysqlPool, zmqSocket, conn, built, attempts>>
poolVars == <<checkedOut, waitq, q>>
healthVars == <<health, status>>
streamVars == <<cons, cons2, subs, inbox, received, calls, inflight>>
cacheVars == <<store, now, cache, written, rec>>
vars == <<redisClient, mysqlPool, zmqSocket, conn, built, attempts, acq,
          checkedOut, waitq, q, health, status,
          cons, cons2, subs, inbox, received, calls,
          store, now, cache, written, inflight, rec>>

\* ------------------------------------------------------- ConnectionBroker
\* The handle currently stored for a backend.
Handle(b) ==
  CASE b = "redis" -> redisClient
    [] b = "mysql" -> mysqlPool
    [] b = "zmq"   -> zmqSocket

\* A guard that also asks for a completed connect: callers arriving while the
\* connect is pending would start a connect of their own.
RedisHasClient_ReadyOnly == redisClient # NULL /\ conn["redis"] = "ready"

\* `if (redisClient) return redisClient;`
RedisHasClient == redisClient # NULL

\* `if (mysqlPool) return mysqlPool;`
MySQLHasPool == mysqlPool # NULL

\* A guard that also asks for a successful connect: a socket whose connect threw
\* would be replaced by the next call.
ZMQHasSocket_ReadyOnly == zmqSocket # NULL /\ conn["zmq"] = "ready"

\* `if (zmqSocket) return zmqSocket;`
ZMQHasSocket == zmqSocket # NULL

\* redisClient = redis.createClient(...); redisClient.on(...); redisClient.connect()
\* is started: the handle is stored BEFORE the connect is awaited.
RedisCreateClient ==
  /\ attempts["redis"] < MaxAttempts
  /\ redisClient' = built["redis"] + 1
  /\ built' = [built EXCEPT !["redis"] = @ + 1]
  /\ attempts' = [attempts EXCEPT !["redis"] = @ + 1]
  /\ conn' = [conn EXCEPT !["redis"] = "connecting"]
  /\ UNCHANGED <<mysqlPool, zmqSocket>>

\* The promise of redisClient.connect() settles.  On rejection the catch block
\* returns null and leaves redisClient as it is.
RedisConnectSettles(ok) ==
  /\ conn' = [conn EXCEPT !["redis"] = IF ok THEN "ready" ELSE "failed"]
  /\ UNCHANGED <<redisClient, mysqlPool, zmqSocket, built, attempts>>

\* mysqlPool = mysql.createPool({...}): synchronous.  When createPool throws, the
\* assignment does not happen and the catch block returns null.
MySQLCreatePool(ok) ==
  /\ attempts["mysql"] < MaxAttempts
  /\ ok \/ attempts["mysql"] + 1 < MaxAttempts    \* the last attempt modelled succeeds
  /\ attempts' = [attempts EXCEPT !["mysql"] = @ + 1]
  /\ IF ok
       THEN /\ mysqlPool' = built["mysql"] + 1
            /\ built' = [built EXCEPT !["mysql"] = @ + 1]
            /\ conn' = [conn EXCEPT !["mysql"] = "ready"]
       ELSE /\ conn' = [conn EXCEPT !["mysql"] = "failed"]
            /\ UNCHANGED <<mysqlPool, built>>
  /\ UNCHANGED <<redisClient, zmqSocket>>

\* zmqSocket = new zmq.Subscriber(); zmqSocket.connect(endpoint): synchronous.
\* The socket is stored before connect is called; when connect throws, the catch
\* block returns null and leaves zmqSocket as it is.
ZMQCreateSocket(ok) ==
  /\ attempts["zmq"] < MaxAttempts
  /\ zmqSocket' = built["zmq"] + 1
  /\ built' = [built EXCEPT !["zmq"] = @ + 1]
  /\ attempts' = [attempts EXCEPT !["zmq"] = @ + 1]
  /\ conn' = [conn EXCEPT !["zmq"] = IF ok THEN "ready" ELSE "failed"]
  /\ UNCHANGED <<redisClient, mysqlPool>>

\* ----------------------------------------------- callers of the get* functions
\* Callers whose call is suspended at `await redisClient.connect()`.
InFlight(b) == Cardinality({c \in Callers : acq[c].pc = "awaitConnect" /\ acq[c].backend = b})

IdleCall == [pc |-> "idle", backend |-> "redis", ret |-> NULL,
             entry |-> "none", started |-> FALSE, retConn |-> "none"]

CanCall(c) == acq[c].pc \in {"idle", "returned"}

\* The call of caller c returns value v; connAtReturn is the connect state of the
\* backend at that moment.
Returned(b, v, entry, started, connAtReturn) ==
  [pc |-> "returned", backend |-> b, ret |-> v,
   entry |-> entry, started |-> started, retConn |-> connAtReturn]

\* getRedisClient(), from the call to its first suspension or return.
getRedisClient(c) ==
  /\ CanCall(c)
  /\ IF RedisHasClient
       THEN /\ acq' = [acq EXCEPT ![c] =
                 Returned("redis", redisClient, conn["redis"], FALSE, conn["redis"])]
            /\ UNCHANGED brokerVars
       ELSE /\ RedisCreateClient
            /\ acq' = [acq EXCEPT ![c] =
                 [pc |-> "awaitConnect", backend |-> "redis", ret |-> NULL,
                  entry |-> conn["redis"], started |-> TRUE, retConn |-> "none"]]

\* `await redisClient.connect()` resolves: `return redisClient`.
getRedisClientConnected(c) ==
  /\ acq[c].pc = "awaitConnect"
  /\ acq[c].backend = "redis"
  /\ RedisConnectSettles(TRUE)
  /\ acq' = [acq EXCEPT ![c] =
       Returned("redis", redisClient, acq[c].entry, TRUE, "ready")]

\* getRedisClient without its catch block: the rejection of connect() becomes the
\* rejection of the call.
getRedisClientFailed_Rethrow(c) ==
  /\ acq[c].pc = "awaitConnect"
  /\ acq[c].backend = "redis"
  /\ RedisConnectSettles(FALSE)
  /\ acq' = [acq EXCEPT ![c] =
       [Returned("redis", NULL, acq[c].entry, TRUE, "failed") EXCEPT !.pc = "threw"]]

\* `await redisClient.connect()` rejects: catch, `return null`.
getRedisClientFailed(c) ==
  /\ acq[c].pc = "awaitConnect"
  /\ acq[c].backend = "redis"
  /\ RedisConnectSettles(FALSE)
  /\ acq' = [acq EXCEPT ![c] =
       Returned("redis", NULL, acq[c].entry, TRUE, "failed")]

\* getMySQLPool(): no await inside, the whole body is one step.
getMySQLPool(c) ==
  /\ CanCall(c)
  /\ IF MySQLHasPool
       THEN /\ acq' = [acq EXCEPT ![c] =
                 Returned("mysql", mysqlPool, conn["mysql"], FALSE, conn["mysql"])]
            /\ UNCHANGED brokerVars
       ELSE \E ok \in BOOLEAN :
            /\ MySQLCreatePool(ok)
            /\ acq' = [acq EXCEPT ![c] =
                 Returned("mysql", IF ok THEN mysqlPool' ELSE NULL,
                          conn["mysql"], TRUE, conn'["mysql"])]

\* getZMQSubscriber(host, port): no await inside, the whole body is one step.
getZMQSubscriber(c) ==
  /\ CanCall(c)
  /\ IF ZMQHasSocket
       THEN /\ acq' = [acq EXCEPT ![c] =
                 Returned("zmq", zmqSocket, conn["zmq"], FALSE, conn["zmq"])]
            /\ UNCHANGED brokerVars
       ELSE \E ok \in BOOLEAN :
            /\ ZMQCreateSocket(ok)
            /\ acq' = [acq EXCEPT ![c] =
                 Returned("zmq", IF ok THEN zmqSocket' ELSE NULL,
                          conn["zmq"], TRUE, conn'["zmq"])]


\* ---------------------------------------------------------- RelationalPool
\* A task's call: kind "query" is queryMySQL, kind "ping" is checkMySQLHealth.
\* pc: idle, awaitConnection (getConnection() has a connection slot and is opening
\* or handing over the connection), queued (getConnection() waits in the pool's
\* queue), awaitExecute (connection.execute / connection.ping is pending),
\* returned.  ret: "rows" / "null" for queryMySQL, "true" / "false" for
\* checkMySQLHealth.  path: how the call ended (noPool, checkout, statement, ok).
IdleTask == [pc |-> "idle", kind |-> "query", ret |-> "null", path |-> "none"]

TaskCanCall(t) == q[t].pc \in {"idle", "returned"}

\* Tasks whose call is over (or not begun): they own no connection.
Quiescent == \A t \in Tasks : q[t].pc \in {"idle", "returned"}

\* A catch block that passes the error on: the call raises.
FailureValue_Raise(kind) == "raised"

\* The value the catch block (or the `if (!pool)` line) returns.
FailureValue(kind) == IF kind = "query" THEN "null" ELSE "false"

\* The value returned after the statement / ping resolved.
SuccessValue(kind) == IF kind = "query" THEN "rows" ELSE "true"

\* pool.getConnection() is called by task t of the given kind: with fewer than
\* connectionLimit connections out the pool provides one, otherwise the caller is
\* queued (waitForConnections: true, queueLimit: 0 = no limit).
PoolGetConnection(t, kind) ==
  IF checkedOut < ConnectionLimit
    THEN /\ checkedOut' = checkedOut + 1
         /\ waitq' = waitq
         /\ q' = [q EXCEPT ![t] = [pc |-> "awaitConnection", kind |-> kind, ret |-> "null", path |-> "none"]]
    ELSE /\ checkedOut' = checkedOut
         /\ waitq' = Append(waitq, t)
         /\ q' = [q EXCEPT ![t] = [pc |-> "queued", kind |-> kind, ret |-> "null", path |-> "none"]]

\* connection.release() by task t, which then returns v: the connection goes to the
\* oldest queued caller, or back to the pool's free list.
PoolRelease(t, v) ==
  IF waitq # <<>>
    THEN /\ checkedOut' = checkedOut
         /\ waitq' = Tail(waitq)
         /\ q' = [q EXCEPT ![t] = [@ EXCEPT !.pc = "returned", !.ret = v, !.path = "ok"],
                           ![Head(waitq)] = [@ EXCEPT !.pc = "awaitExecute"]]
    ELSE /\ checkedOut' = checkedOut - 1
         /\ waitq' = waitq
         /\ q' = [q EXCEPT ![t] = [@ EXCEPT !.pc = "returned", !.ret = v, !.path = "ok"]]

\* The statement rejected and the catch block returns v: nothing is released, the
\* connection stays checked out.
CatchAfterCheckout(t, v) ==
  /\ checkedOut' = checkedOut
  /\ waitq' = waitq
  /\ q' = [q EXCEPT ![t] = [@ EXCEPT !.pc = "returned", !.ret = v, !.path = "statement"]]

\* queryMySQL(sql, params) / checkMySQLHealth(), from the call up to the pending
\* pool.getConnection(): `const pool = await getMySQLPool(); if (!pool) return ...`.
CallWithPool(t, kind) ==
  /\ TaskCanCall(t)
  /\ IF MySQLHasPool
       THEN /\ PoolGetConnection(t, kind)
            /\ UNCHANGED brokerVars
       ELSE \E ok \in BOOLEAN :
            /\ MySQLCreatePool(ok)
            /\ IF ok
                 THEN PoolGetConnection(t, kind)
                 ELSE /\ q' = [q EXCEPT ![t] =
                           [pc |-> "returned", kind |-> kind, ret |-> FailureValue(kind),
                            path |-> "noPool"]]
                      /\ UNCHANGED <<checkedOut, waitq>>

queryMySQL(t) == CallWithPool(t, "query")

checkMySQLHealth(t) == CallWithPool(t, "ping")

\* `await pool.getConnection()` resolves; connection.execute(sql, params) (or
\* connection.ping()) is issued.
GotConnection(t) ==
  /\ q[t].pc = "awaitConnection"
  /\ q' = [q EXCEPT ![t].pc = "awaitExecute"]
  /\ UNCHANGED <<checkedOut, waitq>>

\* `await pool.getConnection()` rejects (the new connection could not be opened):
\* the pool drops that connection and lets the oldest queued caller try, the catch
\* block returns the failure value.
GetConnectionFailed(t) ==
  /\ q[t].pc = "awaitConnection"
  /\ IF waitq # <<>>
       THEN /\ checkedOut' = checkedOut
            /\ waitq' = Tail(waitq)
            /\ q' = [q EXCEPT ![t] = [@ EXCEPT !.pc = "returned", !.ret = FailureValue(q[t].kind),
                                                !.path = "checkout"],
                              ![Head(waitq)] = [@ EXCEPT !.pc = "awaitConnection"]]
       ELSE /\ checkedOut' = checkedOut - 1
            /\ waitq' = waitq
            /\ q' = [q EXCEPT ![t] = [@ EXCEPT !.pc = "returned", !.ret = FailureValue(q[t].kind),
                                                !.path = "checkout"]]

\* `await connection.execute(...)` / `await connection.ping()` resolves:
\* connection.release(); return rows / true.
Executed(t) ==
  /\ q[t].pc = "awaitExecute"
  /\ PoolRelease(t, SuccessValue(q[t].kind))

\* `await connection.execute(...)` / `await connection.ping()` rejects: control
\* jumps over connection.release() into the catch block.
ExecuteFailed(t) ==
  /\ q[t].pc = "awaitExecute"
  /\ CatchAfterCheckout(t, FailureValue(q[t].kind))


\* -------------------------------------------------------- HealthAggregator
\* getSystemHealth() evaluates the four `await check...()` of its object literal
\* one after the other.  Its sub-calls run in caller slot HC (getRedisClient,
\* getZMQSubscriber) and task slot HT (checkMySQLHealth).
\* health.pc: idle, redisClient (checkRedisHealth awaits getRedisClient),
\* redisPing (awaits client.ping()), mysql (awaits checkMySQLHealth), returned.
\* health.env is, per backend, the state the backend was in when its probe last
\* heard from it (when the call was made, as long as it has not).
HC == CHOOSE c \in Callers : \A d \in Callers : c <= d
HT == CHOOSE t \in Tasks : \A u \in Tasks : t <= u

ReportKeys == {"redis", "influxdb", "mysql", "zmq"}
NoReport == [k \in ReportKeys |-> FALSE]
AllUp == [b \in Backends |-> "up"]
IdleHealth == [pc |-> "idle", report |-> NoReport, env |-> AllUp]

\* The probes of the current call that have been issued so far.
ProbesStarted ==
  CASE health.pc = "idle" -> {}
    [] health.pc \in {"redisClient", "redisPing"} -> {"redis"}
    [] health.pc = "mysql" -> {"redis", "influxdb", "mysql"}
    [] health.pc = "returned" -> ReportKeys

\* The call is suspended on a backend.
HealthPending == health.pc \in {"redisClient", "redisPing", "mysql"}

\* checkInfluxDBHealth(): getInfluxDBClient() returns null, so `return false`.
checkInfluxDBHealth == FALSE

\* checkRedisHealth() returned `redis`; checkInfluxDBHealth() runs; then
\* checkMySQLHealth() is called and runs up to its pending getConnection().
HealthAfterRedis(redis) ==
  /\ checkMySQLHealth(HT)
  /\ health' = [health EXCEPT !.pc = "mysql",
                              !.env = [@ EXCEPT !["redis"] = status["redis"],
                                                !["mysql"] = status["mysql"]],
                              !.report = [@ EXCEPT !["redis"] = redis,
                                                   !["influxdb"] = checkInfluxDBHealth]]

\* getSystemHealth() is called: checkRedisHealth() runs up to `await getRedisClient()`.
getSystemHealth ==
  /\ health.pc \in {"idle", "returned"}
  /\ getRedisClient(HC)
  /\ health' = [pc |-> "redisClient", report |-> NoReport, env |-> status]
  /\ UNCHANGED <<poolVars, status, streamVars, cacheVars>>

\* The probe of backend b hears from b in this step.
Heard(b) == [health EXCEPT !.env = [@ EXCEPT ![b] = status[b]]]

\* redisClient.connect() of the health call settles, as the backend allows.
HealthRedisConnect ==
  /\ health.pc = "redisClient"
  /\ \/ status["redis"] = "up" /\ getRedisClientConnected(HC)
     \/ status["redis"] = "down" /\ getRedisClientFailed(HC)
  /\ health' = Heard("redis")
  /\ UNCHANGED <<poolVars, status, streamVars, cacheVars>>

\* checkRedisHealth after `await getRedisClient()`: `if (!client) return false`,
\* else client.ping() is issued.
HealthRedisClient ==
  /\ health.pc = "redisClient"
  /\ acq[HC].pc = "returned"
  /\ IF acq[HC].ret = NULL
       THEN /\ checkMySQLHealth(HT)
            /\ health' = [health EXCEPT !.pc = "mysql",
                                        !.env = [@ EXCEPT !["mysql"] = status["mysql"]],
                                        !.report = [@ EXCEPT !["redis"] = FALSE,
                                                             !["influxdb"] = checkInfluxDBHealth]]
       ELSE /\ health' = [health EXCEPT !.pc = "redisPing"]
            /\ UNCHANGED <<brokerVars, poolVars>>
  /\ UNCHANGED <<acq, status, streamVars, cacheVars>>

\* `await client.ping()` settles: it resolves on a connected client of a backend
\* that is up (`return true`); it rejects on a client whose connect failed and on
\* a backend that is down (catch: `return false`); otherwise it stays pending.
HealthRedisPing ==
  /\ health.pc = "redisPing"
  /\ \/ conn["redis"] = "ready" /\ status["redis"] = "up" /\ HealthAfterRedis(TRUE)
     \/ (conn["redis"] = "failed" \/ (conn["redis"] = "ready" /\ status["redis"] = "down"))
          /\ HealthAfterRedis(FALSE)
  /\ UNCHANGED <<acq, status, streamVars, cacheVars>>

\* The pending getConnection() / connection.ping() of checkMySQLHealth settles, as
\* the backend allows.
HealthMySQLStep ==
  /\ health.pc = "mysql"
  /\ \/ status["mysql"] = "up" /\ (GotConnection(HT) \/ Executed(HT))
     \/ status["mysql"] = "down" /\ (GetConnectionFailed(HT) \/ ExecuteFailed(HT))
  /\ health' = Heard("mysql")
  /\ UNCHANGED <<brokerVars, acq, status, streamVars, cacheVars>>

\* checkMySQLHealth() returned; checkZMQHealth() runs (`socket !== null`); the
\* report is returned.  zmqSocket.connect throws when the bus refuses.
HealthAfterMySQL ==
  /\ health.pc = "mysql"
  /\ q[HT].pc = "returned"
  /\ getZMQSubscriber(HC)
  /\ attempts'["zmq"] # attempts["zmq"] =>
       ((conn'["zmq"] = "ready") <=> (status["zmq"] # "down"))
  /\ health' = [health EXCEPT !.pc = "returned",
                              !.env = [@ EXCEPT !["zmq"] = status["zmq"]],
                              !.report = [@ EXCEPT !["mysql"] = (q[HT].ret = "true"),
                                                   !["zmq"] = (acq'[HC].ret # NULL)]]
  /\ UNCHANGED <<poolVars, status, streamVars, cacheVars>>

\* A backend goes up or down, or stops answering.
EnvChange ==
  /\ \E b \in Backends, st \in Statuses :
       /\ st # status[b]
       /\ status' = [status EXCEPT ![b] = st]
  /\ UNCHANGED <<brokerVars, acq, poolVars, health, streamVars, cacheVars>>


\* ----------------------------------------------------------- JSON.parse
\* Message text is a sequence of characters.  JSONParse does what JSON.parse does
\* on the JSON values built from these characters: numbers without sign, fraction
\* or exponent (no leading zeros), arrays, and blanks around any token.  Every
\* other text makes JSON.parse throw (ok = FALSE).
DigitChars == <<"0", "1", "2", "3", "4", "5", "6", "7", "8", "9">>

Digits == {DigitChars[i] : i \in 1..Len(DigitChars)}

DigitValue(ch) == (CHOOSE i \in 1..Len(DigitChars) : DigitChars[i] = ch) - 1

Num(n) == [t |-> "number", n |-> n]
Arr(items) == [t |-> "array", items |-> items]
SyntaxError == [ok |-> FALSE, val |-> [t |-> "error"], next |-> 0]
Parsed(v, next) == [ok |-> TRUE, val |-> v, next |-> next]

RECURSIVE SkipBlanks(_, _)
SkipBlanks(s, i) ==
  IF i <= Len(s) /\ s[i] = " " THEN SkipBlanks(s, i + 1) ELSE i

\* The digits of s from position i on, appended to the number n read so far.
RECURSIVE ParseDigits(_, _, _)
ParseDigits(s, i, n) ==
  IF i <= Len(s) /\ s[i] \in Digits
    THEN ParseDigits(s, i + 1, 10 * n + DigitValue(s[i]))
    ELSE Parsed(Num(n), i)

RECURSIVE ParseValue(_, _)
RECURSIVE ParseElements(_, _, _)

\* The value that starts at position i of s.
ParseValue(s, i) ==
  IF i > Len(s) THEN SyntaxError
  ELSE IF s[i] = "0" THEN Parsed(Num(0), i + 1)
  ELSE IF s[i] \in Digits THEN ParseDigits(s, i, 0)
  ELSE IF s[i] = "["
    THEN LET j == SkipBlanks(s, i + 1)
         IN  IF j <= Len(s) /\ s[j] = "]"
               THEN Parsed(Arr(<<>>), j + 1)
               ELSE ParseElements(s, j, <<>>)
  ELSE SyntaxError

\* The elements of an array from position i on, after the elements in items.
ParseElements(s, i, items) ==
  LET r == ParseValue(s, i)
      j == SkipBlanks(s, r.next)
  IN  IF ~r.ok \/ j > Len(s) THEN SyntaxError
      ELSE IF s[j] = "]" THEN Parsed(Arr(Append(items, r.val)), j + 1)
      ELSE IF s[j] = "," THEN ParseElements(s, SkipBlanks(s, j + 1), Append(items, r.val))
      ELSE SyntaxError

\* JSON.parse(text): one value, nothing after it but blanks.
JSONParse(s) ==
  LET r == ParseValue(s, SkipBlanks(s, 1))
  IN  IF r.ok /\ SkipBlanks(s, r.next) = Len(s) + 1
        THEN [ok |-> TRUE, val |-> r.val]
        ELSE [ok |-> FALSE, val |-> [t |-> "error"]]

WellFormed(f) == JSONParse(f).ok

\* ----------------------------------------------------------- StreamConsumer
\* Topics a caller subscribes to, and the first frames the bus may deliver.  A SUB
\* socket receives the messages whose first frame starts with a subscribed topic.
Topics == {<<>>, <<"x">>}

Frames == { <<"1", "0">>, <<"[", "1", ",", "0", "]">>, <<" ", "[", "]", " ">>,
            <<"0", "1">>, <<"[", "1", ",", "]">>, <<"x", "1">>, <<>> }

IsPrefix(t, f) == Len(t) <= Len(f) /\ SubSeq(f, 1, Len(t)) = t

Matches(f) == \E t \in subs : IsPrefix(t, f)

\* cons.pc: idle, consuming (inside `for await (const [msg] of socket)`),
\* returned (the function has returned).  cons.loop: the call has entered the
\* receive loop.  cons.ret: what the promise of the call settled with ("none"
\* while it is pending); every `return` of the function and the end of its catch
\* block give undefined.  cons.stop: the caller has asked for the consumer to stop.
IdleConsumer == [pc |-> "idle", topic |-> <<>>, loop |-> FALSE, ret |-> "none", stop |-> FALSE]

\* `if (!socket) return;` and the outer catch block: the promise resolves with
\* undefined, as it does when the loop ends.
StartFailed(topic) ==
  [pc |-> "returned", topic |-> topic, loop |-> FALSE, ret |-> "undefined", stop |-> FALSE]

\* The call is suspended in `for await (const [msg] of socket)`.
InLoop(topic) ==
  [pc |-> "consuming", topic |-> topic, loop |-> TRUE, ret |-> "none", stop |-> FALSE]

\* A callback that puts each payload in front of the earlier ones.
Invoke_Reordered(log, call) == <<call>> \o log

\* `callback(data)`: the callback is invoked inside the iteration that received the
\* message, so the invocations follow the iterations.
Invoke(log, call) == Append(log, call)

\* Without the inner try/catch a throw inside the loop body reaches the outer
\* catch, which logs and lets the function return.
AfterDecodeFailure_OuterCatch == "returned"

\* Where the loop is after JSON.parse threw: the inner catch logs, the loop goes on.
AfterDecodeFailure == "consuming"

\* A callback invoked outside the inner try: its throw reaches the outer catch.
AfterHandlerThrow_OuterCatch == "returned"

\* Where the loop is after callback(data) threw: the same inner catch.
AfterHandlerThrow == "consuming"

\* subscribeToZMQTopic(topic, callback) up to the pending first receive:
\* `const socket = await getZMQSubscriber(); if (!socket) return;`
\* `socket.subscribe(topic)`, then the loop waits for a message.
subscribeToZMQTopic(topic) ==
  /\ cons.pc \in {"idle", "returned"}
  /\ \E ok \in BOOLEAN :
       /\ IF ZMQHasSocket
            THEN ok /\ UNCHANGED brokerVars
            ELSE ZMQCreateSocket(ok)
       /\ IF ok
            THEN /\ subs' = subs \cup {topic}
                 /\ cons' = InLoop(topic)
            ELSE /\ subs' = subs
                 /\ cons' = StartFailed(topic)
  /\ UNCHANGED <<inflight, cons2, inbox, received, calls, acq, poolVars, healthVars, cacheVars>>

\* The bus delivers a message with first frame f to the connected socket.
Publish(f) ==
  /\ zmqSocket # NULL
  /\ conn["zmq"] = "ready"
  /\ Matches(f)
  /\ Len(received) + Len(inbox) < MaxMsgs
  /\ inbox' = Append(inbox, f)
  /\ UNCHANGED <<inflight, brokerVars, cons, cons2, subs, received, calls, acq, poolVars, healthVars, cacheVars>>

\* One iteration of the loop: the pending receive yields the oldest message,
\* `JSON.parse(msg.toString())`, `callback(data)`; the callback returns or throws.
Consume ==
  /\ cons.pc = "consuming"
  /\ inbox # <<>>
  /\ LET f == Head(inbox)
         r == JSONParse(f)
         idx == Len(received) + 1
     IN  /\ inbox' = Tail(inbox)
         /\ received' = Append(received, f)
         /\ IF r.ok
              THEN \E threw \in BOOLEAN :
                     /\ calls' = Invoke(calls, [idx |-> idx, payload |-> r.val, threw |-> threw])
                     /\ cons' = [cons EXCEPT !.pc = IF threw THEN AfterHandlerThrow
                                                            ELSE "consuming"]
              ELSE /\ calls' = calls
                   /\ cons' = [cons EXCEPT !.pc = AfterDecodeFailure]
  /\ UNCHANGED <<inflight, brokerVars, cons2, subs, acq, poolVars, healthVars, cacheVars>>

\* ---- the loop with the callback's run made visible
\* A loop that hands the callback to the scheduler and goes on receiving.
LoopMayReceive_Detached == TRUE

\* callback(data) is an ordinary call on the loop's own stack and its result is not
\* awaited: the loop gets to its next receive once the call has returned or thrown.
LoopMayReceive == inflight = {}

\* The pending receive yields the oldest message; JSON.parse; callback(data) is
\* entered (or the inner catch logs the decode failure).
Receive ==
  /\ cons.pc = "consuming"
  /\ inbox # <<>>
  /\ LoopMayReceive
  /\ LET f == Head(inbox)
         r == JSONParse(f)
         idx == Len(received) + 1
     IN  /\ inbox' = Tail(inbox)
         /\ received' = Append(received, f)
         /\ IF r.ok
              THEN /\ inflight' = inflight \cup {idx}
                   /\ calls' = Invoke(calls, [idx |-> idx, payload |-> r.val, threw |-> FALSE])
                   /\ cons' = cons
              ELSE /\ inflight' = inflight
                   /\ calls' = calls
                   /\ cons' = [cons EXCEPT !.pc = AfterDecodeFailure]
  /\ UNCHANGED <<brokerVars, cons2, subs, acq, poolVars, healthVars, cacheVars>>

\* The callback invocation for message i returns, or throws into the inner catch.
HandlerReturns(i, threw) ==
  /\ i \in inflight
  /\ inflight' = inflight \ {i}
  /\ calls' = [k \in 1..Len(calls) |->
                IF calls[k].idx = i THEN [calls[k] EXCEPT !.threw = threw] ELSE calls[k]]
  /\ cons' = [cons EXCEPT !.pc = IF threw THEN AfterHandlerThrow ELSE @]
  /\ UNCHANGED <<brokerVars, cons2, subs, inbox, received, acq, poolVars, healthVars, cacheVars>>

\* Topics that well-formed messages can start with.
JSONTopics == {<<"1">>, <<"[">>}

\* The surrounding system wants the running consumer stopped.  The module has no
\* operation for it: nothing in it closes zmqSocket or ends the loop, and
\* subscribeToZMQTopic gives its caller nothing to cancel it with.  The request
\* therefore reaches no code and changes nothing the loop can see.
stop ==
  /\ cons.pc = "consuming"
  /\ ~cons.stop
  /\ cons' = [cons EXCEPT !.stop = TRUE]
  /\ UNCHANGED <<inflight, brokerVars, cons2, subs, inbox, received, calls, acq, poolVars, healthVars,
                 cacheVars>>

\* A further subscribeToZMQTopic(topic, callback2) while the loop of the first call
\* runs: getZMQSubscriber() returns the same socket, socket.subscribe(topic) is
\* called again and a second `for await` loop waits on the same socket.
subscribeAgain(topic) ==
  /\ cons.pc = "consuming"
  /\ cons2.pc \in {"idle", "returned"}
  /\ ZMQHasSocket
  /\ subs' = subs \cup {topic}
  /\ cons2' = InLoop(topic)
  /\ UNCHANGED <<inflight, brokerVars, cons, inbox, received, calls, acq, poolVars, healthVars, cacheVars>>

\* Two loops receive on one socket; which of them the socket serves is the
\* library's matter.  Here it refuses the second loop's receive: the throw reaches
\* the outer catch block and the second call returns.
SecondReceiveRefused ==
  /\ cons2.pc = "consuming"
  /\ cons2' = [cons2 EXCEPT !.pc = "returned", !.ret = "undefined"]
  /\ UNCHANGED <<inflight, brokerVars, cons, subs, inbox, received, calls, acq, poolVars, healthVars,
                 cacheVars>>

\* Here it serves the second loop's receive: the message goes to the second loop
\* (and its callback2), not to the first.
SecondConsume ==
  /\ cons2.pc = "consuming"
  /\ inbox # <<>>
  /\ inbox' = Tail(inbox)
  /\ received' = Append(received, Head(inbox))
  /\ UNCHANGED <<inflight, brokerVars, cons, cons2, subs, calls, acq, poolVars, healthVars, cacheVars>>

\* The calls that are inside their receive loop.
RunningLoops ==
  {i \in {1, 2} : (IF i = 1 THEN cons.pc ELSE cons2.pc) = "consuming"}

\* -------------------------------------------------------- JSON.stringify
\* The decimal digits of n.
RECURSIVE ToDigits(_)
ToDigits(n) ==
  IF n < 10 THEN <<DigitChars[n + 1]>>
            ELSE ToDigits(n \div 10) \o <<DigitChars[(n % 10) + 1]>>

\* A value JSON.stringify throws on (an object that refers to itself, a BigInt).
Cyclic == [t |-> "cyclic"]

Serializable(v) == v.t \in {"number", "array"}

\* The text of a number or of an array of such values: digits, or the items
\* between brackets with commas and no blanks.
RECURSIVE StringifyValue(_)
RECURSIVE StringifyItems(_, _)
StringifyValue(v) ==
  IF v.t = "number" THEN ToDigits(v.n)
  ELSE <<"[">> \o StringifyItems(v.items, 1) \o <<"]">>

StringifyItems(items, i) ==
  IF i > Len(items) THEN <<>>
  ELSE IF i = Len(items) THEN StringifyValue(items[i])
  ELSE StringifyValue(items[i]) \o <<",">> \o StringifyItems(items, i + 1)

\* JSON.stringify(value): the text, or a throw (ok = FALSE).
JSONStringify(v) ==
  IF Serializable(v) THEN [ok |-> TRUE, text |-> StringifyValue(v)]
                     ELSE [ok |-> FALSE, text |-> <<>>]

\* ------------------------------------------------------------- CacheClient
\* getRedisData(key) and setRedisData(key, value, ttl?) against one redis server.
\* The server keeps, per key, a text and possibly a deadline; an entry whose
\* deadline has passed is gone.  The calls are made one at a time by one client of
\* the module; their getRedisClient() runs in caller slot HC.
MaxTime == 3         \* seconds the clock runs for

Undefined == -1      \* the `ttl?` argument left out

Keys == {"k1"}
TTLs == {Undefined, 0, 1, 2}
Values == {Num(0), Num(10), Arr(<<Num(1), Num(20)>>), Cyclic}

\* Texts another writer may leave under a key: not JSON, and empty.
ForeignTexts == {<<"x", "1">>, <<>>}

\* What a call settles with.
JSNull == [t |-> "null"]
JSTrue == [t |-> "true"]
JSFalse == [t |-> "false"]
Rejected == [t |-> "rejected"]     \* the promise of the call rejects: the call raises

NoEntry == [present |-> FALSE, text |-> <<>>, expires |-> FALSE, deadline |-> 0]
NoWrite == [valid |-> FALSE, value |-> JSNull, ttl |-> Undefined, at |-> 0]

\* cache.pc: idle, client (awaits getRedisClient()), command (awaits client.get /
\* client.set / client.setEx), returned.  cache.path: how the call ended.
IdleCache == [pc |-> "idle", op |-> "get", key |-> "k1", value |-> JSNull, ttl |-> Undefined,
              text |-> <<>>, ret |-> JSNull, path |-> "none", seen |-> NoEntry, at |-> 0]

\* rec.pc: idle, getDb (the record* function awaits getDb()), insert (awaits the
\* insert), cache (awaits setRedisData), returned.  rec.db: what the relational
\* write did (noDb: returned null without writing; written; threw).  rec.result:
\* what the mutation gave its caller (success: { success: true }; error: it
\* threw).  rec.cached:
\* whether setRedisData was called and what it returned (none, pending, true,
\* false).  rec.before: what the server held under the mutation's key when the
\* mutation was called.
IdleRecord == [pc |-> "idle", kind |-> "recordPrice", db |-> "none", cached |-> "none",
               result |-> "none", before |-> NoEntry]

\* A write that never sets an expiry.
HasTTL_Never(ttl) == FALSE

\* A test for a ttl that is given (`ttl !== undefined`): 0 would count as a ttl.
HasTTL_Defined(ttl) == ttl # Undefined

\* `if (ttl)`: a ttl that is given and is not 0.
HasTTL(ttl) == ttl # Undefined /\ ttl # 0

\* A catch block that passes the error on.
GetCatch_Rethrow == Rejected

\* The catch block of getRedisData: `return null`.
GetCatch == JSNull

\* A catch block that reports success.
SetCatch_True == JSTrue

\* The catch block of setRedisData: `return false`.
SetCatch == JSFalse

\* What the server holds under key k at this time.
Lookup(k) ==
  IF store[k].present /\ (~store[k].expires \/ now < store[k].deadline)
    THEN store[k] ELSE NoEntry

\* client.setEx(key, ttl, text) / client.set(key, text) as the server applies it.
Stored(text, ttl) ==
  [present |-> TRUE, text |-> text, expires |-> HasTTL(ttl),
   deadline |-> IF HasTTL(ttl) THEN now + ttl ELSE 0]

\* `return value ? JSON.parse(value) : null;` for the reply `entry` of client.get:
\* no entry is null, the empty text is falsy, a throw of JSON.parse is caught.
Deserialized(entry) ==
  IF ~entry.present \/ entry.text = <<>> THEN JSNull
  ELSE IF JSONParse(entry.text).ok THEN JSONParse(entry.text).val
  ELSE GetCatch

\* The call ends with result r by way of path.
CacheReturn(r, path) == [cache EXCEPT !.pc = "returned", !.ret = r, !.path = path, !.at = now]

\* setRedisData(key, value, ttl) up to `await getRedisClient()`.
setRedisData(k, v, ttl) ==
  /\ cache.pc \in {"idle", "returned"}
  /\ getRedisClient(HC)
  /\ cache' = [IdleCache EXCEPT !.pc = "client", !.op = "set", !.key = k,
                                !.value = v, !.ttl = ttl]
  /\ UNCHANGED <<store, now, written, status, health, poolVars, streamVars>>

\* getRedisData(key) up to `await getRedisClient()`.
getRedisData(k) ==
  /\ cache.pc \in {"idle", "returned"}
  /\ getRedisClient(HC)
  /\ cache' = [IdleCache EXCEPT !.pc = "client", !.op = "get", !.key = k]
  /\ UNCHANGED <<rec, store, now, written, status, health, poolVars, streamVars>>

\* redisClient.connect() of the call settles, as the backend allows.
CacheConnect ==
  /\ cache.pc = "client"
  /\ \/ status["redis"] = "up" /\ getRedisClientConnected(HC)
     \/ status["redis"] = "down" /\ getRedisClientFailed(HC)
  /\ UNCHANGED <<cacheVars, status, health, poolVars, streamVars>>

\* After `await getRedisClient()`: `if (!client) return null / false`; otherwise
\* the command is issued (for a set, after JSON.stringify(value), whose throw goes
\* to the catch block).
CacheHaveClient ==
  /\ cache.pc = "client"
  /\ acq[HC].pc = "returned"
  /\ cache' =
       IF acq[HC].ret = NULL
         THEN CacheReturn(IF cache.op = "get" THEN JSNull ELSE JSFalse, "noClient")
       ELSE IF cache.op = "set" /\ ~JSONStringify(cache.value).ok
         THEN CacheReturn(SetCatch, "stringify")
       ELSE [cache EXCEPT !.pc = "command",
                          !.text = IF cache.op = "set" THEN JSONStringify(cache.value).text
                                                       ELSE <<>>]
  /\ UNCHANGED <<rec, brokerVars, acq, store, now, written, status, health, poolVars, streamVars>>

\* The command is served: the server applies the write, or replies to the read and
\* the reply is deserialized.
CacheServed ==
  /\ cache.pc = "command"
  /\ conn["redis"] = "ready"
  /\ status["redis"] = "up"
  /\ IF cache.op = "set"
       THEN /\ store' = [store EXCEPT ![cache.key] = Stored(cache.text, cache.ttl)]
            /\ written' = [written EXCEPT ![cache.key] =
                 [valid |-> TRUE, value |-> cache.value, ttl |-> cache.ttl, at |-> now]]
            /\ cache' = CacheReturn(JSTrue, "served")
       ELSE /\ cache' = [CacheReturn(Deserialized(Lookup(cache.key)), "served")
                           EXCEPT !.seen = Lookup(cache.key)]
            /\ UNCHANGED <<store, written>>
  /\ UNCHANGED <<rec, brokerVars, acq, now, status, health, poolVars, streamVars>>

\* The command rejects (the client never connected, or the server refuses): the
\* catch block returns.
CacheRejected ==
  /\ cache.pc = "command"
  /\ conn["redis"] = "failed" \/ (conn["redis"] = "ready" /\ status["redis"] = "down")
  /\ cache' = CacheReturn(IF cache.op = "get" THEN GetCatch ELSE SetCatch, "rejected")
  /\ UNCHANGED <<rec, brokerVars, acq, store, now, written, status, health, poolVars, streamVars>>

\* A second passes.
Tick ==
  /\ now < MaxTime
  /\ now' = now + 1
  /\ UNCHANGED <<rec, brokerVars, acq, store, cache, written, status, health, poolVars, streamVars>>

\* Another writer of the same server stores text f under key k, without expiry.
ExternalWrite(k, f) ==
  /\ store' = [store EXCEPT ![k] = [present |-> TRUE, text |-> f, expires |-> FALSE, deadline |-> 0]]
  /\ written' = [written EXCEPT ![k] = NoWrite]
  /\ UNCHANGED <<rec, brokerVars, acq, now, cache, status, health, poolVars, streamVars>>

\* The redis server goes up or down, or stops answering.
RedisChange ==
  /\ \E st \in Statuses :
       /\ st # status["redis"]
       /\ status' = [status EXCEPT !["redis"] = st]
  /\ UNCHANGED <<brokerVars, acq, cacheVars, health, poolVars, streamVars>>

\* ---- the record mutations of the routers (recordPrice, recordState, recordSnapshot)
RecordKinds == {"recordPrice", "recordState", "recordSnapshot"}

\* The key the mutation caches under ("market:latest:<symbol>", "simulation:latest",
\* "portfolio:latest"): one key per mutation, and one mutation runs at a time here.
RecordKey(kind) == "k1"

\* The object built from the validated input.
RecordPayload == Arr(<<Num(1), Num(20)>>)

RecordTTL == 3600

\* A catch block that swallows the error and reports success.
RecordCatch_Swallow == "success"

\* The catch block of the mutations: console.error, then `throw error`.
RecordCatch == "error"

\* The mutation is called: `await db.record*(...)`, which awaits getDb().
recordMutation(kind) ==
  /\ rec.pc \in {"idle", "returned"}
  /\ rec' = [IdleRecord EXCEPT !.pc = "getDb", !.kind = kind,
                               !.before = store[RecordKey(kind)]]
  /\ UNCHANGED <<brokerVars, acq, store, now, cache, written, status, health, poolVars,
                 streamVars>>

\* getDb() yields a database: the insert is issued.
RecordHaveDb ==
  /\ rec.pc = "getDb"
  /\ rec' = [rec EXCEPT !.pc = "insert"]
  /\ UNCHANGED <<brokerVars, acq, store, now, cache, written, status, health, poolVars,
                 streamVars>>

\* db.record* has returned with outcome db: the mutation goes on to
\* `await setRedisData(key, {...}, 3600)`.
RecordToCache(db) ==
  /\ setRedisData(RecordKey(rec.kind), RecordPayload, RecordTTL)
  /\ rec' = [rec EXCEPT !.pc = "cache", !.db = db, !.cached = "pending"]

\* getDb() yields no database: `if (!db) return null;`, nothing is inserted and
\* the mutation goes on.
RecordNoDb ==
  /\ rec.pc = "getDb"
  /\ RecordToCache("noDb")

\* The insert resolves.
RecordInserted ==
  /\ rec.pc = "insert"
  /\ RecordToCache("written")

\* The insert rejects: db.record* throws into the mutation's catch block.
RecordInsertThrew ==
  /\ rec.pc = "insert"
  /\ rec' = [rec EXCEPT !.pc = "returned", !.db = "threw", !.result = RecordCatch]
  /\ UNCHANGED <<brokerVars, acq, store, now, cache, written, status, health, poolVars,
                 streamVars>>

\* setRedisData has returned true or false: `return { success: true };`.
RecordCacheReturned ==
  /\ rec.pc = "cache"
  /\ cache.pc = "returned"
  /\ rec' = [rec EXCEPT !.pc = "returned", !.result = "success",
                        !.cached = IF cache.ret = JSTrue THEN "true" ELSE "false"]
  /\ UNCHANGED <<brokerVars, acq, store, now, cache, written, status, health, poolVars,
                 streamVars>>

Init ==
  /\ redisClient = NULL
  /\ mysqlPool = NULL
  /\ zmqSocket = NULL
  /\ conn = [b \in Backends |-> "none"]
  /\ built = [b \in Backends |-> 0]
  /\ attempts = [b \in Backends |-> 0]
  /\ acq = [c \in Callers |-> IdleCall]
  /\ checkedOut = 0
  /\ waitq = <<>>
  /\ q = [t \in Tasks |-> IdleTask]
  /\ health = IdleHealth
  /\ status = AllUp
  /\ cons = IdleConsumer
  /\ cons2 = IdleConsumer
  /\ subs = {}
  /\ inbox = <<>>
  /\ received = <<>>
  /\ calls = <<>>
  /\ store = [k \in Keys |-> NoEntry]
  /\ now = 0
  /\ cache = IdleCache
  /\ written = [k \in Keys |-> NoWrite]
  /\ inflight = {}
  /\ rec = IdleRecord

NextBroker ==
  \E c \in Callers :
    \/ getRedisClient(c) /\ UNCHANGED <<poolVars, healthVars, streamVars, cacheVars>>
    \/ getRedisClientConnected(c) /\ UNCHANGED <<poolVars, healthVars, streamVars, cacheVars>>
    \/ getRedisClientFailed(c) /\ UNCHANGED <<poolVars, healthVars, streamVars, cacheVars>>
    \/ getMySQLPool(c) /\ UNCHANGED <<poolVars, healthVars, streamVars, cacheVars>>
    \/ getZMQSubscriber(c) /\ UNCHANGED <<poolVars, healthVars, streamVars, cacheVars>>

SpecBroker == Init /\ [][NextBroker]_vars

NextPool ==
  \E t \in Tasks :
    \/ queryMySQL(t) /\ UNCHANGED <<acq, healthVars, streamVars, cacheVars>>
    \/ GotConnection(t) /\ UNCHANGED <<brokerVars, acq, healthVars, streamVars, cacheVars>>
    \/ GetConnectionFailed(t) /\ UNCHANGED <<brokerVars, acq, healthVars, streamVars, cacheVars>>
    \/ Executed(t) /\ UNCHANGED <<brokerVars, acq, healthVars, streamVars, cacheVars>>
    \/ ExecuteFailed(t) /\ UNCHANGED <<brokerVars, acq, healthVars, streamVars, cacheVars>>

SpecPool == Init /\ [][NextPool]_vars

\* The health check against backends in any state.
InitHealth ==
  /\ redisClient = NULL
  /\ mysqlPool = NULL
  /\ zmqSocket = NULL
  /\ conn = [b \in Backends |-> "none"]
  /\ built = [b \in Backends |-> 0]
  /\ attempts = [b \in Backends |-> 0]
  /\ acq = [c \in Callers |-> IdleCall]
  /\ checkedOut = 0
  /\ waitq = <<>>
  /\ q = [t \in Tasks |-> IdleTask]
  /\ health = IdleHealth
  /\ status \in [Backends -> Statuses]
  /\ cons = IdleConsumer
  /\ cons2 = IdleConsumer
  /\ subs = {}
  /\ inbox = <<>>
  /\ received = <<>>
  /\ calls = <<>>
  /\ store = [k \in Keys |-> NoEntry]
  /\ now = 0
  /\ cache = IdleCache
  /\ written = [k \in Keys |-> NoWrite]
  /\ inflight = {}
  /\ rec = IdleRecord

\* The steps of a health call that is under way.
HealthProgress ==
  \/ HealthRedisConnect
  \/ HealthRedisClient
  \/ HealthRedisPing
  \/ HealthMySQLStep
  \/ HealthAfterMySQL

NextHealth ==
  \/ getSystemHealth
  \/ HealthProgress
  \/ EnvChange

SpecHealth == InitHealth /\ [][NextHealth]_vars

\* Every step of the call that stays enabled is eventually taken: the event loop
\* runs each continuation whose promise has settled, and a backend that is up or
\* down answers.  Nothing is assumed about what the backends do.
FairSpecHealth == InitHealth /\ [][NextHealth]_vars /\ WF_vars(HealthProgress)

NextStream ==
  \/ \E topic \in Topics : subscribeToZMQTopic(topic)
  \/ \E f \in Frames : Publish(f)
  \/ Consume

SpecStream == Init /\ [][NextStream]_vars

\* checkMySQLHealth calls only.
NextPing ==
  \E t \in Tasks :
    \/ checkMySQLHealth(t) /\ UNCHANGED <<acq, healthVars, streamVars, cacheVars>>
    \/ GotConnection(t) /\ UNCHANGED <<brokerVars, acq, healthVars, streamVars, cacheVars>>
    \/ GetConnectionFailed(t) /\ UNCHANGED <<brokerVars, acq, healthVars, streamVars, cacheVars>>
    \/ Executed(t) /\ UNCHANGED <<brokerVars, acq, healthVars, streamVars, cacheVars>>
    \/ ExecuteFailed(t) /\ UNCHANGED <<brokerVars, acq, healthVars, streamVars, cacheVars>>

SpecPing == Init /\ [][NextPing]_vars

\* A step of the library for the call of task t: its pending getConnection(),
\* execute() or ping() settles.
PoolProgress(t) ==
  \/ GotConnection(t) /\ UNCHANGED <<brokerVars, acq, healthVars, streamVars, cacheVars>>
  \/ GetConnectionFailed(t) /\ UNCHANGED <<brokerVars, acq, healthVars, streamVars, cacheVars>>
  \/ Executed(t) /\ UNCHANGED <<brokerVars, acq, healthVars, streamVars, cacheVars>>
  \/ ExecuteFailed(t) /\ UNCHANGED <<brokerVars, acq, healthVars, streamVars, cacheVars>>

\* queryMySQL and checkMySQLHealth calls on the one pool.
NextPoolCalls ==
  \E t \in Tasks :
    \/ queryMySQL(t) /\ UNCHANGED <<acq, healthVars, streamVars, cacheVars>>
    \/ checkMySQLHealth(t) /\ UNCHANGED <<acq, healthVars, streamVars, cacheVars>>
    \/ PoolProgress(t)

\* Every checkout the pool can serve and every statement or ping that was issued
\* settles, with success or with an error.
FairSpecPoolCalls ==
  Init /\ [][NextPoolCalls]_vars /\ \A t \in Tasks : WF_vars(PoolProgress(t))

NextResubscribe ==
  \/ \E topic \in Topics : subscribeToZMQTopic(topic)
  \/ \E f \in Frames : Publish(f)
  \/ Consume
  \/ \E topic \in Topics : subscribeAgain(topic)
  \/ SecondReceiveRefused
  \/ SecondConsume

SpecResubscribe == Init /\ [][NextResubscribe]_vars

NextStop ==
  \/ \E topic \in Topics : subscribeToZMQTopic(topic)
  \/ \E f \in Frames : Publish(f)
  \/ Consume
  \/ stop

\* The loop takes every message that waits in the socket: the event loop resumes
\* the pending receive.
FairSpecStop == Init /\ [][NextStop]_vars /\ WF_vars(Consume)

\* Two subscribeToZMQTopic calls for two different topics.
NextTwoTopics ==
  \/ \E topic \in JSONTopics : subscribeToZMQTopic(topic)
  \/ \E f \in Frames : Publish(f)
  \/ Consume
  \/ \E topic \in JSONTopics : topic # cons.topic /\ subscribeAgain(topic)
  \/ SecondReceiveRefused
  \/ SecondConsume

SpecTwoTopics == Init /\ [][NextTwoTopics]_vars

NextHandlers ==
  \/ \E topic \in Topics : subscribeToZMQTopic(topic)
  \/ \E f \in Frames : Publish(f)
  \/ Receive
  \/ \E i \in 1..MaxMsgs, threw \in BOOLEAN : HandlerReturns(i, threw)

SpecHandlers == Init /\ [][NextHandlers]_vars

NextRecord ==
  \/ \E kind \in RecordKinds : recordMutation(kind)
  \/ RecordHaveDb
  \/ RecordNoDb
  \/ RecordInserted
  \/ RecordInsertThrew
  \/ CacheConnect
  \/ CacheHaveClient
  \/ CacheServed
  \/ CacheRejected
  \/ RecordCacheReturned
  \/ RedisChange

SpecRecord == Init /\ [][NextRecord]_vars

NextCache ==
  \/ \E k \in Keys, v \in Values, ttl \in TTLs : setRedisData(k, v, ttl) /\ UNCHANGED rec
  \/ \E k \in Keys : getRedisData(k)
  \/ CacheConnect
  \/ CacheHaveClient
  \/ CacheServed
  \/ CacheRejected
  \/ Tick
  \/ \E k \in Keys, f \in ForeignTexts : ExternalWrite(k, f)
  \/ RedisChange

SpecCache == Init /\ [][NextCache]_vars

\* ------------------------------------------------ claims on the broker (SpecBroker)

\* C2: for each backend at most one connect attempt is in flight at any time, and
\* while it is pending it is the only attempt made and its handle the only handle
\* built: concurrent first-time callers do not open a second connection.
C2_SingleConnectInFlight ==
  \A b \in Backends :
    /\ InFlight(b) <= 1
    /\ InFlight(b) = 1 =>
         /\ attempts[b] = 1
         /\ built[b] = 1
         /\ Handle(b) = 1
         /\ conn[b] = "connecting"

\* Two callers raced on the first getRedisClient: one is suspended in connect, the
\* other has called while that connect was pending, and one attempt was made.
C2_Witness ==
  \E c1, c2 \in Callers :
    /\ c1 # c2
    /\ acq[c1].pc = "awaitConnect" /\ acq[c1].backend = "redis"
    /\ acq[c2].pc = "returned" /\ acq[c2].backend = "redis"
    /\ acq[c2].entry = "connecting"
    /\ attempts["redis"] = 1

\* C3: a caller that arrives while the first connect attempt is in flight waits for
\* the attempt to settle (it has not returned while the connect is pending) and gets
\* the attempt's result: the handle if the connect succeeded, null if it failed.
C3_JoinersShareOutcome ==
  \A c \in Callers :
    (acq[c].pc = "returned" /\ acq[c].entry = "connecting") =>
      /\ conn[acq[c].backend] # "connecting"
      /\ (acq[c].ret # NULL) <=> (conn[acq[c].backend] = "ready")

\* C4: a handle is stored, and returned by a get* call, only after its connect
\* procedure completed successfully (never while pending, never after a failure).
C4_OnlyReadyHandles ==
  /\ \A b \in Backends : Handle(b) # NULL => conn[b] = "ready"
  /\ \A c \in Callers :
       (acq[c].pc = "returned" /\ acq[c].ret # NULL) => acq[c].retConn = "ready"

\* C5: a get* call that finds the backend Failed starts a new connect attempt, and
\* connect attempts are started by get* calls only.
C5_RetryOnDemand ==
  [][ /\ \A c \in Callers :
           (CanCall(c) /\ acq'[c] # acq[c] /\ conn[acq'[c].backend] = "failed") =>
             attempts'[acq'[c].backend] = attempts[acq'[c].backend] + 1
      /\ \A b \in Backends :
           attempts'[b] # attempts[b] =>
             \E c \in Callers : CanCall(c) /\ acq'[c] # acq[c] /\ acq'[c].backend = b
    ]_vars

\* ------------------------------------------------- claims on the pool (SpecPool)

\* C1: queryMySQL returns every connection it checked out on every exit path: once
\* all calls have returned, as many connections are checked out as before the calls
\* (none).
C1_NoLeakedConnection == Quiescent => checkedOut = 0

\* --------------------------------------- claims on the health check (SpecHealth)

\* C6: the probes are issued concurrently: whenever the call is suspended on a
\* backend, the probe of every backend has already been issued.
C6_ProbesConcurrent == HealthPending => Backends \subseteq ProbesStarted

\* C7: a probe whose ping never answers is cut off by a timeout: the call still
\* returns, and reports that backend unhealthy.
C7_HungProbeTimesOut ==
  /\ []((health.pc = "redisPing" /\ [](status["redis"] = "hung"))
          => <>(health.pc = "returned" /\ ~health.report["redis"]))
  /\ []((health.pc = "mysql" /\ q[HT].pc = "awaitExecute" /\ [](status["mysql"] = "hung"))
          => <>(health.pc = "returned" /\ ~health.report["mysql"]))

\* C8: the report has an entry for every backend and, with only the relational
\* store down, says cache healthy, relational unhealthy, bus healthy.
OnlyRelationalDown == [b \in Backends |-> IF b = "mysql" THEN "down" ELSE "up"]

C8_ReportPerBackend ==
  health.pc = "returned" =>
    /\ DOMAIN health.report = ReportKeys
    /\ health.env = OnlyRelationalDown =>
         (health.report["redis"] /\ ~health.report["mysql"] /\ health.report["zmq"])

\* ------------------------------------- claims on the consume loop (SpecStream)

\* The invocation of the callback made for the i-th message received, if any.
CallsFor(i) == {k \in 1..Len(calls) : calls[k].idx = i}

\* C9: a message that fails JSON decoding is skipped: the callback is not invoked
\* for it and the loop does not end; a well-formed message gets exactly one
\* invocation, with its decoded value.  So a malformed message followed by a
\* well-formed one gives exactly one invocation, and the loop still consumes.
C9_MalformedSkipped ==
  /\ \A i \in 1..Len(received) :
       IF WellFormed(received[i])
         THEN /\ Cardinality(CallsFor(i)) = 1
              /\ \A k \in CallsFor(i) : calls[k].payload = JSONParse(received[i]).val
         ELSE CallsFor(i) = {}
  /\ (\E i \in 1..Len(received) : ~WellFormed(received[i])) => cons.pc = "consuming"

\* The loop took a malformed message and then a well-formed one.
C9_Witness ==
  /\ Len(received) = 2
  /\ ~WellFormed(received[1])
  /\ WellFormed(received[2])
  /\ Len(calls) = 1
  /\ calls[1].idx = 2
  /\ cons.pc = "consuming"

\* C10: a failure raised by the callback is caught and the loop continues: after
\* an invocation that threw the loop is still consuming, and every well-formed
\* message received after it is handed to the callback, later in the order of
\* invocations.
C10_HandlerFailureIsolated ==
  \A k \in 1..Len(calls) :
    calls[k].threw =>
      /\ cons.pc = "consuming"
      /\ \A j \in (calls[k].idx + 1)..Len(received) :
           WellFormed(received[j]) => \E k2 \in (k + 1)..Len(calls) : calls[k2].idx = j

\* The callback threw on the first message and was invoked for the second.
C10_Witness ==
  /\ Len(calls) >= 2
  /\ calls[1].threw
  /\ calls[1].idx = 1
  /\ calls[2].idx = 2
  /\ cons.pc = "consuming"

\* The messages received so far that decode.
WellFormedReceived == {i \in 1..Len(received) : WellFormed(received[i])}

\* C11: the payloads handed to the callback are the decoded well-formed messages in
\* the order the loop received them: one invocation per such message, none
\* duplicated, none out of order, each carrying that message's value alone.
C11_HandlerInReceiveOrder ==
  /\ Len(calls) = Cardinality(WellFormedReceived)
  /\ \A k \in 1..Len(calls) :
       /\ calls[k].idx \in WellFormedReceived
       /\ calls[k].payload = JSONParse(received[calls[k].idx]).val
       /\ \A k2 \in (k + 1)..Len(calls) : calls[k].idx < calls[k2].idx

\* Two well-formed messages with different values were received around a malformed
\* one, and the callback got the first value and then the second.
C11_Witness ==
  /\ Len(received) = 3
  /\ ~WellFormed(received[2])
  /\ Len(calls) = 2
  /\ calls[1].idx = 1
  /\ calls[2].idx = 3
  /\ calls[1].payload # calls[2].payload

\* C12: a call whose start failed (no subscriber, so the loop was never entered)
\* hands the failure to its caller, who can tell it from a loop that ended.
C12_StartFailureReturned ==
  (cons.pc = "returned" /\ ~cons.loop) => cons.ret = "error"

\* ------------------------------------------------ claims on the cache (SpecCache)

\* C13: a get served after a completed set of the same key with a ttl of at least
\* one second returns the value that was set while the ttl has not elapsed, and
\* null once it has.
C13_SetThenGet ==
  (/\ cache.pc = "returned"
   /\ cache.op = "get"
   /\ cache.path = "served"
   /\ written[cache.key].valid
   /\ written[cache.key].ttl >= 1) =>
     IF cache.at < written[cache.key].at + written[cache.key].ttl
       THEN cache.ret = written[cache.key].value
       ELSE cache.ret = JSNull

\* A value was set with a ttl of one second and read back after the second passed.
C13_Witness ==
  /\ cache.pc = "returned"
  /\ cache.op = "get"
  /\ cache.path = "served"
  /\ written[cache.key].valid
  /\ written[cache.key].ttl = 1
  /\ cache.at >= written[cache.key].at + 1
  /\ cache.ret = JSNull

\* C14: getRedisData never raises; it returns null when there is no client, when
\* the read fails, when the key is absent and when the stored text does not
\* deserialize, and the deserialized value otherwise.
C14_GetNeverRaises ==
  (cache.pc = "returned" /\ cache.op = "get") =>
    /\ cache.ret # Rejected
    /\ cache.path \in {"noClient", "rejected"} => cache.ret = JSNull
    /\ cache.path = "served" =>
         IF ~cache.seen.present THEN cache.ret = JSNull
         ELSE IF WellFormed(cache.seen.text) THEN cache.ret = JSONParse(cache.seen.text).val
         ELSE cache.ret = JSNull

\* A get read a text that is not JSON and returned null.
C14_Witness ==
  /\ cache.pc = "returned"
  /\ cache.op = "get"
  /\ cache.path = "served"
  /\ cache.seen.present
  /\ cache.seen.text # <<>>
  /\ ~WellFormed(cache.seen.text)
  /\ cache.ret = JSNull

\* C15: setRedisData never raises; it returns true exactly when the write was
\* applied by the server (the text of the value is then what the server holds, until
\* someone else writes the key), and false in every other case.
C15_SetNeverRaises ==
  (cache.pc = "returned" /\ cache.op = "set") =>
    /\ cache.ret \in {JSTrue, JSFalse}
    /\ cache.ret = JSTrue <=> cache.path = "served"
    /\ (cache.ret = JSTrue /\ written[cache.key].valid) =>
         /\ store[cache.key].present
         /\ store[cache.key].text = JSONStringify(cache.value).text

\* A set whose command the server refused returned false.
C15_Witness ==
  /\ cache.pc = "returned"
  /\ cache.op = "set"
  /\ cache.path = "rejected"
  /\ cache.ret = JSFalse

\* ------------------------------------- further claims on the broker (SpecBroker)

\* C16: no get* call ends by throwing, and a call whose own connect procedure
\* failed returns null.
C16_ConnectFailureReturnsNull ==
  \A c \in Callers :
    /\ acq[c].pc # "threw"
    /\ (acq[c].pc = "returned" /\ acq[c].started /\ acq[c].retConn = "failed") =>
         acq[c].ret = NULL

\* A getRedisClient call and a getZMQSubscriber call each ran a connect that failed
\* and returned null.
C16_Witness ==
  \E c1, c2 \in Callers :
    /\ acq[c1].pc = "returned" /\ acq[c1].backend = "redis"
    /\ acq[c1].started /\ acq[c1].retConn = "failed" /\ acq[c1].ret = NULL
    /\ acq[c2].pc = "returned" /\ acq[c2].backend = "zmq"
    /\ acq[c2].started /\ acq[c2].retConn = "failed" /\ acq[c2].ret = NULL

\* -------------------------------------- further claims on the pool (SpecPool)

\* C17: queryMySQL never raises: a call that has ended returned the rows when the
\* statement succeeded, and null when there was no pool, when the checkout failed
\* and when the statement failed.
C17_QueryNeverRaises ==
  \A t \in Tasks :
    (q[t].pc = "returned" /\ q[t].kind = "query") =>
      /\ q[t].ret \in {"rows", "null"}
      /\ q[t].ret = "rows" <=> q[t].path = "ok"

\* One query found no pool, another had its statement fail; both returned null.
C17_Witness ==
  \E t1, t2 \in Tasks :
    /\ q[t1].pc = "returned" /\ q[t1].path = "noPool" /\ q[t1].ret = "null"
    /\ q[t2].pc = "returned" /\ q[t2].path = "statement" /\ q[t2].ret = "null"

\* ------------------------------ further claims on the health check (SpecHealth)

\* C18: checkZMQHealth reports true only for a socket whose connect did not fail:
\* a report says zmq healthy only if the stored socket's connect succeeded.
C18_ZMQPingNeedsGoodConnect ==
  (health.pc = "returned" /\ health.report["zmq"]) => conn["zmq"] = "ready"

\* ------------------------- claims on repeated subscription (SpecResubscribe)

\* C19: subscribing again to a topic the open socket is already subscribed to is a
\* no-op: the step of such a call changes neither the set of subscriptions nor
\* the set of running receive loops.
C19_SubscribeIdempotent ==
  [][ (/\ cons2.pc \in {"idle", "returned"}
       /\ cons2'.pc # cons2.pc
       /\ cons2'.topic \in subs) =>
        (subs' = subs /\ RunningLoops' = RunningLoops)
    ]_vars

\* ------------------------------------- claims on stopping the loop (FairSpecStop)

\* C20: once the consumer has been asked to stop, the socket is closed, the
\* pending receive ends and the loop exits by itself: the call eventually returns.
C20_StopEndsLoop == [](cons.stop => <>(cons.pc = "returned"))

\* -------------------------------------------- claims on the pool's ping (SpecPing)

\* C21: checkMySQLHealth gives back the connection it checked out on every exit
\* path: when no ping call is under way, no connection is checked out.
C21_PingReturnsConnection ==
  (\A t \in Tasks : q[t].kind = "ping" => q[t].pc \in {"idle", "returned"}) => checkedOut = 0

\* --------------------------------- claims on pool liveness (FairSpecPoolCalls)

\* C23: every queryMySQL / checkMySQLHealth call that is under way eventually
\* returns, whatever calls came before it.
C23_CallsEventuallyReturn ==
  \A t \in Tasks :
    [](q[t].pc \in {"queued", "awaitConnection", "awaitExecute"} => <>(q[t].pc = "returned"))

\* ------------------------- further claims on the consume loop (SpecStream)

C24_HandleNeverReplaced ==
  [][ \A b \in Backends :
        Handle(b) # NULL =>
          /\ Handle(b)' = Handle(b)
          /\ built'[b] = built[b]
          /\ \A c \in Callers :
               (CanCall(c) /\ acq'[c] # acq[c] /\ acq'[c].backend = b) =>
                 (acq'[c].pc = "returned" /\ acq'[c].ret = Handle(b))
    ]_vars

\* A get* call found the handle of a connect that had failed and returned it.
C24_Witness ==
  \E c \in Callers :
    /\ acq[c].pc = "returned"
    /\ acq[c].entry = "failed"
    /\ ~acq[c].started
    /\ acq[c].ret # NULL
    /\ acq[c].ret = Handle(acq[c].backend)

\* ---------------------- claims on the zmq health result (SpecHealth)

\* C27: a zmq entry that is true means a socket is stored, a stored socket is
\* never cleared or replaced, and a check made with a socket stored reports true
\* whatever the state of the bus: so once true, always true.
C27_ZMQHealthMonotone ==
  [][ /\ zmqSocket # NULL => zmqSocket' = zmqSocket
      /\ (health.pc # "returned" /\ health'.pc = "returned") =>
           /\ health'.report["zmq"] => zmqSocket' # NULL
           /\ zmqSocket # NULL => health'.report["zmq"]
    ]_vars

\* A report says zmq is healthy while the bus is down and the stored socket's
\* connect had failed.
C27_Witness ==
  /\ health.pc = "returned"
  /\ health.report["zmq"]
  /\ status["zmq"] = "down"
  /\ conn["zmq"] = "failed"

\* ------------------------------- further claims on the cache (SpecCache)

\* C28: a set the server applied stored the entry with a deadline exactly ttl
\* seconds after the write when ttl is positive, and with no expiry when ttl is
\* absent or 0.
C28_ExpiryFollowsTTL ==
  (/\ cache.pc = "returned"
   /\ cache.op = "set"
   /\ cache.path = "served"
   /\ written[cache.key].valid) =>
     /\ store[cache.key].expires <=> cache.ttl >= 1
     /\ store[cache.key].expires => store[cache.key].deadline = cache.at + cache.ttl

\* A set with ttl = 0 was applied, time has passed and the entry is still there.
C28_Witness ==
  /\ cache.pc = "returned"
  /\ cache.op = "set"
  /\ cache.path = "served"
  /\ cache.ttl = 0
  /\ written[cache.key].valid
  /\ now > cache.at
  /\ Lookup(cache.key).present

\* ------------------------------ claims on two topics (SpecTwoTopics)

\* C25: with two calls for two different topics, the callback of the first call
\* is invoked only for messages of its own topic, and every well-formed message of
\* that topic reaches it.
C25_TopicsReachOwnHandler ==
  cons2.pc # "idle" =>
    /\ \A k \in 1..Len(calls) : IsPrefix(cons.topic, received[calls[k].idx])
    /\ \A i \in 1..Len(received) :
         (WellFormed(received[i]) /\ IsPrefix(cons.topic, received[i])) => CallsFor(i) # {}

\* ------------------------ claims on the callback's run (SpecHandlers)

\* C26: at most one callback invocation is in flight, the loop has received
\* nothing after the message whose invocation is in flight, and no message has
\* more than one invocation.
C26_HandlersNeverOverlap ==
  /\ Cardinality(inflight) <= 1
  /\ \A i \in inflight : i = Len(received)
  /\ \A k1, k2 \in 1..Len(calls) : calls[k1].idx = calls[k2].idx => k1 = k2

\* The callback runs for the second message while a third waits in the socket.
C26_Witness ==
  /\ inflight = {2}
  /\ Len(received) = 2
  /\ Len(calls) = 2
  /\ inbox # <<>>

\* ------------------------ claims on the record mutations (SpecRecord)

\* C29: a record mutation returns { success: true } only if the row was written.
C29_SuccessMeansWritten ==
  (rec.pc = "returned" /\ rec.result = "success") => rec.db = "written"

\* C30: setRedisData is called only after db.record* has returned without
\* throwing; when it threw, the mutation throws and the cache holds what it held
\* when the mutation was called; when setRedisData returned false the mutation
\* still returns { success: true }.
C30_CacheAfterRelationalWrite ==
  /\ rec.cached # "none" => rec.db \in {"noDb", "written"}
  /\ rec.db = "threw" =>
       /\ rec.pc = "returned"
       /\ rec.result = "error"
       /\ rec.cached = "none"
       /\ store[RecordKey(rec.kind)] = rec.before
  /\ (rec.pc = "returned" /\ rec.cached = "false") => rec.result = "success"

\* The insert threw in a mutation called after one that had cached its entry.
C30_Witness ==
  /\ rec.pc = "returned"
  /\ rec.db = "threw"
  /\ rec.before.present

====
